---- MODULE Spec2Model ----
(***************************************************************************)
(* Credit-metered asynchronous job pipeline of the video generation        *)
(* backend: the credit ledger (subscription_service.py), the paid          *)
(* submission endpoints (api/ai.py, api/deps.py) and the Celery tasks      *)
(* (tasks/video_tasks.py, tasks/face_tasks.py, core/celery_app.py).        *)
(*                                                                         *)
(* One user and that user's single subscription row are modelled (the      *)
(* user_id column of subscriptions is unique).  Every request of Req is    *)
(* one call of a paid endpoint by that user; the job it creates carries    *)
(* the request's number.                                                   *)
(***************************************************************************)
EXTENDS Integers, Sequences, FiniteSets, TLC

\* ---------------------------------------------------------------- bounds
NReq == 3
NMain == 2
NWork == 1
MaxOps == 1
MaxRedeliver == 1
MaxPollTime == 20
MaxVideos == 3
MaxRetriesArg == 3

\* ------------------------------------------------------ program constants
CREDITS_PRO_MONTHLY == 300
CREDITS_TRIAL == 50
REMIX_REWARD_CREDITS == 1
VEO_POLL_INTERVAL == 10
VEO_MAX_POLL_TIME == MaxPollTime
max_retries == 3

Req == 1..NReq

OperationTypes == {"video_generation_standard", "video_extension_standard", "face_analysis"}

CREDIT_COSTS(op) ==
    CASE op = "video_generation_standard" -> 25
      [] op = "video_generation_fast" -> 10
      [] op = "video_extension_standard" -> 25
      [] op = "video_extension_fast" -> 10
      [] op = "face_analysis" -> 5
      [] op = "prompt_enhancement" -> 0

JobTypeOf(op) ==
    CASE op = "video_generation_standard" -> "video_generation"
      [] op = "video_generation_fast" -> "video_generation"
      [] op = "video_extension_standard" -> "video_extension"
      [] op = "face_analysis" -> "face_analysis"

\* Subscription.status values that the ledger treats as eligible.
EligibleStatuses == {"active", "trialing", "canceled"}

VARIABLES
    sub,        \* the subscription row: [status, balance, polar]; status "none" = no row
    txs,        \* credit_transactions, in insertion order
    lock,       \* request holding the row lock of the subscription (0 = free)
    rpc,        \* position of each request in its endpoint
    rop,        \* operation type of each request
    rsess,      \* Subscription object in the request's session: [loaded, balance]
    rpend,      \* flushed, not yet committed deduction of the request
    job,        \* jobs row of the request: [status, progress, type]
    node,       \* status of the request's node
    task,       \* Celery message / execution of the job: [state, retries]
    wpc,        \* position of the running task
    polls,      \* poll_count of the running attempt
    wbal,       \* balance read by refund_credits_sync of the running task
    op,         \* background ledger operation in progress: [kind, bal]
    nops,       \* background ledger operations started so far
    nlost,      \* worker losses so far
    startCalls, \* provider start calls per job
    firstPoll,  \* what the provider reported on the job's first poll
    everDone,   \* the provider has reported the job's operation done
    failedCount, \* writes that moved the job's status to FAILED
    timeouts,   \* poll timeouts raised by the attempts of the job
    watch,      \* the jobs whose history the five variables above record
    hist,       \* per watched job: executions begun, start refused, COMPLETED written
    media       \* the service call in progress: its arguments and locals

vars == <<sub, txs, lock, rpc, rop, rsess, rpend, job, node, task, wpc, polls,
          wbal, op, nops, nlost, startCalls, firstPoll, everDone, failedCount,
          timeouts, watch, hist, media>>

apiVars == <<rpc, rop, rsess, rpend>>
jobVars == <<job, node, task, wpc, polls, wbal>>
oldGhost == <<startCalls, firstPoll, everDone, failedCount, timeouts, watch>>
ghostVars == <<oldGhost, hist>>
opVars == <<op, nops>>

NoSession == [loaded |-> FALSE, balance |-> 0]
NoPending == [set |-> FALSE, balance |-> 0]
NoJob == [status |-> "none", progress |-> 0, type |-> "none"]
NoTask == [state |-> "none", retries |-> 0]
NoOp == [kind |-> "none", bal |-> 0]
NoMedia == [pc |-> "none"]
NoHist == [execs |-> 0, blocked |-> 0, completed |-> FALSE]

\* A CreditTransaction row.  by is the request whose session wrote the row
\* (0 for rows written outside the endpoints); job is the correlated job_id
\* (0 = NULL).
Tx(type, amount, balance_after, jobId, by) ==
    [type |-> type, amount |-> amount, balance_after |-> balance_after,
     job |-> jobId, by |-> by]

\* ------------------------------------------------------------ the ledger

\* balance >= amount, the comparison of deduct_credits
HasEnoughNoCheck(balance, amount) == TRUE
HasEnough(balance, amount) == ~(balance < amount)

\* The Subscription object a SELECT hands back to the session.  An object
\* that is already in the session's identity map and is not expired keeps
\* its loaded attributes: the select of deduct_credits sets no
\* populate_existing, so the row it has locked does not refresh the object
\* that require_active_subscription loaded earlier in the same session.
SessionAfterSelect(sess, row) ==
    IF sess.loaded THEN sess ELSE [loaded |-> TRUE, balance |-> row.balance]

\* the transaction row written by deduct_credits
DeductionTx(amount, newBalance, r) == Tx("deduction", -amount, newBalance, 0, r)

\* the transaction row written by refund_credits and refund_credits_sync
RefundTxBeforeIncrement(amount, newBalance, jobId) ==
    Tx("refund", amount, newBalance - amount, jobId, 0)
RefundTx(amount, newBalance, jobId) == Tx("refund", amount, newBalance, jobId, 0)

\* the rows written by handle_renewal, in insertion order
RenewalTxs(old_balance) ==
    (IF old_balance > 0
        THEN <<Tx("expiration", -old_balance, 0, 0, 0)>>
        ELSE <<>>)
    \o <<Tx("allocation", CREDITS_PRO_MONTHLY, CREDITS_PRO_MONTHLY, 0, 0)>>

\* create_trial: a user without a subscription gets a trial with trial credits
CreateTrial ==
    /\ nops < MaxOps
    /\ op.kind = "none"
    /\ sub.status = "none"
    /\ sub' = [status |-> "trialing", balance |-> CREDITS_TRIAL, polar |-> FALSE]
    /\ txs' = Append(txs, Tx("trial_allocation", CREDITS_TRIAL, CREDITS_TRIAL, 0, 0))
    /\ nops' = nops + 1
    /\ UNCHANGED <<lock, op, apiVars, jobVars, nlost, ghostVars, media>>

\* activate_subscription: the balance is set to the monthly credits and one
\* allocation row is written, whether or not a subscription existed
ActivateSubscription ==
    /\ nops < MaxOps
    /\ op.kind = "none"
    /\ lock = 0
    /\ sub' = [status |-> "active", balance |-> CREDITS_PRO_MONTHLY, polar |-> TRUE]
    /\ txs' = Append(txs, Tx("allocation", CREDITS_PRO_MONTHLY, CREDITS_PRO_MONTHLY, 0, 0))
    /\ nops' = nops + 1
    /\ UNCHANGED <<lock, op, apiVars, jobVars, nlost, ghostVars, media>>

\* cancel_subscription / revoke_subscription: found by polar_subscription_id
SetStatus(status) ==
    /\ nops < MaxOps
    /\ op.kind = "none"
    /\ lock = 0
    /\ sub.status # "none" /\ sub.polar
    /\ sub' = [sub EXCEPT !.status = status]
    /\ nops' = nops + 1
    /\ UNCHANGED <<txs, lock, op, apiVars, jobVars, nlost, ghostVars, media>>

CancelSubscription == SetStatus("canceled")

RevokeSubscription == SetStatus("revoked")

\* The operations below read the balance with a plain SELECT and write the
\* new balance when they flush: OpRead is the SELECT, the Op...Write action
\* the UPDATE, INSERT and commit.  The UPDATE waits for the row lock.
OpRead(kind) ==
    /\ nops < MaxOps
    /\ op.kind = "none"
    /\ CASE kind = "renewal" -> sub.status # "none" /\ sub.polar
         [] kind = "reward" -> sub.status \in EligibleStatuses
         [] kind = "refund" -> sub.status # "none"
    /\ op' = [kind |-> kind, bal |-> sub.balance]
    /\ nops' = nops + 1
    /\ UNCHANGED <<sub, txs, lock, apiVars, jobVars, nlost, ghostVars, media>>

\* handle_renewal
RenewalRead == OpRead("renewal")

RenewalWrite ==
    /\ op.kind = "renewal"
    /\ lock = 0
    /\ sub' = [sub EXCEPT !.status = "active", !.balance = CREDITS_PRO_MONTHLY]
    /\ txs' = txs \o RenewalTxs(op.bal)
    /\ op' = NoOp
    /\ UNCHANGED <<lock, nops, apiVars, jobVars, nlost, ghostVars, media>>

\* reward_credits (template remix reward)
RewardRead == OpRead("reward")

RewardWrite ==
    /\ op.kind = "reward"
    /\ lock = 0
    /\ sub' = [sub EXCEPT !.balance = op.bal + REMIX_REWARD_CREDITS]
    /\ txs' = Append(txs, Tx("adjustment", REMIX_REWARD_CREDITS,
                             op.bal + REMIX_REWARD_CREDITS, 0, 0))
    /\ op' = NoOp
    /\ UNCHANGED <<lock, nops, apiVars, jobVars, nlost, ghostVars, media>>

\* refund_credits (the asynchronous variant), called without a job_id
RefundRead == OpRead("refund")

RefundWrite ==
    /\ op.kind = "refund"
    /\ lock = 0
    /\ \E o \in OperationTypes :
          /\ sub' = [sub EXCEPT !.balance = op.bal + CREDIT_COSTS(o)]
          /\ txs' = Append(txs, RefundTx(CREDIT_COSTS(o), op.bal + CREDIT_COSTS(o), 0))
    /\ op' = NoOp
    /\ UNCHANGED <<lock, nops, apiVars, jobVars, nlost, ghostVars, media>>

\* ------------------------------------------------- the paid endpoints

\* get_current_user and require_active_subscription, the dependencies that
\* run before the endpoint's body in the request's session.  now_past is the
\* outcome of comparing utcnow() with trial_ends_at / current_period_end.
Submit(r, o) ==
    /\ rpc[r] = "idle"
    /\ IF sub.status \notin EligibleStatuses
         THEN /\ rpc' = [rpc EXCEPT ![r] = "rejected"]
              /\ UNCHANGED <<sub, rop, rsess>>
         ELSE \E now_past \in BOOLEAN :
                IF sub.status \in {"trialing", "canceled"} /\ now_past
                  THEN /\ lock = 0
                       /\ sub' = [sub EXCEPT !.status = "expired"]
                       /\ rpc' = [rpc EXCEPT ![r] = "rejected"]
                       /\ UNCHANGED <<rop, rsess>>
                  ELSE /\ rsess' = [rsess EXCEPT ![r] = SessionAfterSelect(NoSession, sub)]
                       /\ rop' = [rop EXCEPT ![r] = o]
                       /\ rpc' = [rpc EXCEPT ![r] = "deduct"]
                       /\ UNCHANGED sub
    /\ UNCHANGED <<txs, lock, rpend, jobVars, opVars, nlost, ghostVars, media>>

\* deduct_credits, SELECT ... FOR UPDATE: waits for the row lock; no row
\* with an eligible status raises InsufficientCreditsError(available=0)
DeductLock(r) ==
    /\ rpc[r] = "deduct"
    /\ lock = 0
    /\ IF sub.status \in EligibleStatuses
         THEN /\ lock' = r
              /\ rsess' = [rsess EXCEPT ![r] = SessionAfterSelect(rsess[r], sub)]
              /\ rpc' = [rpc EXCEPT ![r] = "locked"]
         ELSE /\ rpc' = [rpc EXCEPT ![r] = "insufficient"]
              /\ UNCHANGED <<lock, rsess>>
    /\ UNCHANGED <<sub, txs, rop, rpend, jobVars, opVars, nlost, ghostVars, media>>

\* deduct_credits, compare / decrement / add the transaction / flush; the
\* caller commits.  InsufficientCreditsError ends the request and its
\* session, which releases the lock.
DeductFlush(r) ==
    /\ rpc[r] = "locked"
    /\ LET amount == CREDIT_COSTS(rop[r])
           balance == rsess[r].balance
       IN IF HasEnough(balance, amount)
            THEN /\ rsess' = [rsess EXCEPT ![r].balance = balance - amount]
                 /\ rpend' = [rpend EXCEPT ![r] = [set |-> TRUE, balance |-> balance - amount]]
                 /\ rpc' = [rpc EXCEPT ![r] = "flushed"]
                 /\ UNCHANGED lock
            ELSE /\ rpc' = [rpc EXCEPT ![r] = "insufficient"]
                 /\ lock' = 0
                 /\ UNCHANGED <<rsess, rpend>>
    /\ UNCHANGED <<sub, txs, rop, jobVars, opVars, nlost, ghostVars, media>>

\* the endpoint's lookup of the node (project for analyze_face) and its
\* validation: a failure raises HTTPException before anything is committed,
\* and the session is closed without a commit
Lookup(r) ==
    /\ rpc[r] = "flushed"
    /\ \E found \in BOOLEAN :
         IF found
           THEN /\ rpc' = [rpc EXCEPT ![r] = "commit"]
                /\ UNCHANGED <<lock, rpend>>
           ELSE /\ rpc' = [rpc EXCEPT ![r] = "aborted"]
                /\ lock' = 0
                /\ rpend' = [rpend EXCEPT ![r] = NoPending]
    /\ UNCHANGED <<sub, txs, rop, rsess, jobVars, opVars, nlost, ghostVars, media>>

\* what the endpoint's first commit writes to the ledger: the flushed
\* UPDATE of credits_balance and the INSERT of the deduction row
CommittedTxsNone(r) == txs
CommittedTxs(r) ==
    Append(txs, DeductionTx(CREDIT_COSTS(rop[r]), rpend[r].balance, r))

\* the first commit of the endpoint: create_and_dispatch_video_job sets
\* node.status = PROCESSING and commits; analyze_face commits the character
CommitDeduction(r) ==
    /\ rpc[r] = "commit"
    /\ sub' = [sub EXCEPT !.balance = rpend[r].balance]
    /\ txs' = CommittedTxs(r)
    /\ lock' = 0
    /\ rpend' = [rpend EXCEPT ![r] = NoPending]
    /\ IF rop[r] = "face_analysis"
         THEN /\ rpc' = [rpc EXCEPT ![r] = "createnode"]
              /\ UNCHANGED node
         ELSE /\ rpc' = [rpc EXCEPT ![r] = "createjob"]
              /\ node' = [node EXCEPT ![r] = "processing"]
    /\ UNCHANGED <<rop, rsess, job, task, wpc, polls, wbal, opVars, nlost, ghostVars, media>>

\* analyze_face: the placeholder node is created in status PROCESSING
CreateNode(r) ==
    /\ rpc[r] = "createnode"
    /\ node' = [node EXCEPT ![r] = "processing"]
    /\ rpc' = [rpc EXCEPT ![r] = "createjob"]
    /\ UNCHANGED <<sub, txs, lock, rop, rsess, rpend, job, task, wpc, polls, wbal,
                   opVars, nlost, ghostVars, media>>

\* the Job row is added in status PENDING and committed
CreateJob(r) ==
    /\ rpc[r] = "createjob"
    /\ job' = [job EXCEPT ![r] = [status |-> "pending", progress |-> 0,
                                  type |-> JobTypeOf(rop[r])]]
    /\ rpc' = [rpc EXCEPT ![r] = "dispatch"]
    /\ UNCHANGED <<sub, txs, lock, rop, rsess, rpend, node, task, wpc, polls, wbal,
                   opVars, nlost, ghostVars, media>>

\* celery_task.delay(...): the message is put on the queue with retries = 0
Dispatch(r) ==
    /\ rpc[r] = "dispatch"
    /\ task' = [task EXCEPT ![r] = [state |-> "queued", retries |-> 0]]
    /\ rpc' = [rpc EXCEPT ![r] = "done"]
    /\ UNCHANGED <<sub, txs, lock, rop, rsess, rpend, job, node, wpc, polls, wbal,
                   opVars, nlost, ghostVars, media>>

\* ------------------------------------------------------- the Celery tasks

max_polls == VEO_MAX_POLL_TIME \div VEO_POLL_INTERVAL

IsFace(j) == job[j].type = "face_analysis"

\* generate_video / extend_video build credit_refund_info, analyze_face
\* tests user_id and credit_cost: the endpoints always pass both
credit_cost(j) == CREDIT_COSTS(rop[j])

\* celery_task.request.retries >= celery_task.max_retries
RetriesExhaustedOffByOne(retries) == retries > max_retries
RetriesExhausted(retries) == retries >= max_retries

\* autoretry_for=(Exception,) in the options of generate_video, extend_video
\* and analyze_face; stitch_videos has no autoretry_for and never calls
\* self.retry()
AutoretryForAll(type) == TRUE
AutoretryFor(type) == type # "video_stitch"

\* the retry of autoretry_for is published while retries < max_retries
RetriesLeftOnce(retries) == retries < 1
RetriesLeft(retries) == retries < max_retries

\* update_job_status_sync(job_id, status, progress=0): status and progress
\* are both overwritten, whatever the row held
UpdateJobStatus(j, status, progress) ==
    [job EXCEPT ![j].status = status, ![j].progress = progress]

\* the ghost count of writes that moved the status of j to FAILED
HistExec(j) == IF j \in watch THEN [hist EXCEPT ![j].execs = @ + 1] ELSE hist
HistBlocked(j) ==
    IF j \in watch /\ hist[j].blocked = 0
      THEN [hist EXCEPT ![j].blocked = startCalls[j] + 1]
      ELSE hist
HistCompleted(j) == IF j \in watch THEN [hist EXCEPT ![j].completed = TRUE] ELSE hist

CountFailed(j, newJob) ==
    IF j \in watch /\ newJob[j].status = "failed" /\ job[j].status # "failed"
      THEN [failedCount EXCEPT ![j] = @ + 1]
      ELSE failedCount

\* A worker takes the message and the task body starts:
\* update_job_status_sync(job_id, JobStatus.PROCESSING, progress=0)
TaskStart(j) ==
    /\ task[j].state = "queued"
    /\ job[j].type # "video_stitch"
    /\ task' = [task EXCEPT ![j].state = "running"]
    /\ job' = UpdateJobStatus(j, "processing", 0)
    /\ wpc' = [wpc EXCEPT ![j] = "node_processing"]
    /\ polls' = [polls EXCEPT ![j] = 0]
    /\ hist' = HistExec(j)
    /\ UNCHANGED <<sub, txs, lock, apiVars, node, wbal, opVars, nlost, oldGhost, media>>

\* update_node_status_sync(node_id, NodeStatus.PROCESSING)
NodeProcessing(j) ==
    /\ task[j].state = "running" /\ wpc[j] = "node_processing"
    /\ node' = [node EXCEPT ![j] = "processing"]
    /\ wpc' = [wpc EXCEPT ![j] = IF IsFace(j) THEN "analyze" ELSE "start"]
    /\ UNCHANGED <<sub, txs, lock, apiVars, job, task, polls, wbal, opVars, nlost, ghostVars, media>>

\* _execute_video_operation: start_operation() and what follows it at once.
\* The provider starts an operation, or raises an error whose text mentions
\* safety / blocked, or raises another error.
StartOperation(j) ==
    /\ task[j].state = "running" /\ wpc[j] = "start"
    /\ startCalls' = IF j \in watch
                       THEN [startCalls EXCEPT ![j] = @ + 1]
                       ELSE startCalls
    /\ \E outcome \in {"ok", "safety", "error"} :
         CASE outcome = "ok" ->
                /\ job' = UpdateJobStatus(j, "processing", 10)
                /\ wpc' = [wpc EXCEPT ![j] = "poll"]
                /\ UNCHANGED <<failedCount, hist>>
           [] outcome = "safety" ->
                /\ job' = UpdateJobStatus(j, "failed", 0)
                /\ failedCount' = CountFailed(j, job')
                /\ hist' = HistBlocked(j)
                /\ wpc' = [wpc EXCEPT ![j] = "error_node"]
           [] outcome = "error" ->
                /\ wpc' = [wpc EXCEPT ![j] = "handler"]
                /\ UNCHANGED <<job, failedCount, hist>>
    /\ UNCHANGED <<sub, txs, lock, apiVars, node, task, polls, wbal, opVars, nlost,
                   firstPoll, everDone, timeouts, watch, media>>

\* progress = min(10 + int(poll_count * 70 / max_polls), 80)
PollProgress(poll_count) ==
    LET p == 10 + ((poll_count * 70) \div max_polls)
    IN IF p < 80 THEN p ELSE 80

\* One iteration of the poll loop: veo_service.poll_operation and the
\* branch taken on its result.
Poll(j) ==
    /\ task[j].state = "running" /\ wpc[j] = "poll"
    /\ polls[j] < max_polls
    /\ \E result \in {"not_done", "done", "safety", "quota", "error"} :
         /\ firstPoll' = IF j \in watch /\ firstPoll[j] = "none"
                           THEN [firstPoll EXCEPT ![j] = result]
                           ELSE firstPoll
         /\ everDone' = IF j \in watch /\ result # "not_done"
                          THEN [everDone EXCEPT ![j] = TRUE]
                          ELSE everDone
         /\ CASE result = "not_done" ->
                   /\ polls' = [polls EXCEPT ![j] = @ + 1]
                   /\ job' = UpdateJobStatus(j, "processing", PollProgress(polls[j] + 1))
                   /\ UNCHANGED <<wpc, failedCount>>
              [] result = "done" ->
                   /\ wpc' = [wpc EXCEPT ![j] = "download"]
                   /\ UNCHANGED <<polls, job, failedCount>>
              [] OTHER ->
                   /\ job' = UpdateJobStatus(j, "failed", 0)
                   /\ failedCount' = CountFailed(j, job')
                   /\ wpc' = [wpc EXCEPT ![j] = "error_node"]
                   /\ UNCHANGED polls
    /\ UNCHANGED <<sub, txs, lock, apiVars, node, task, wbal, opVars, nlost, startCalls,
                   timeouts, watch, hist, media>>

\* the loop ends without a result:
\* raise Exception("Video operation timed out after ...s")
PollTimeout(j) ==
    /\ task[j].state = "running" /\ wpc[j] = "poll"
    /\ ~(polls[j] < max_polls)
    /\ wpc' = [wpc EXCEPT ![j] = "handler"]
    /\ timeouts' = IF j \in watch THEN [timeouts EXCEPT ![j] = @ + 1] ELSE timeouts
    /\ UNCHANGED <<sub, txs, lock, apiVars, job, node, task, polls, wbal, opVars, nlost,
                   startCalls, firstPoll, everDone, failedCount, watch, hist, media>>

\* update_node_status_sync(node_id, NodeStatus.FAILED) after the FAILED
\* write of the safety branch of the start and of the error branch of the
\* poll; the exception raised next is caught by the outer handler
ErrorNode(j) ==
    /\ task[j].state = "running" /\ wpc[j] = "error_node"
    /\ node' = [node EXCEPT ![j] = "failed"]
    /\ wpc' = [wpc EXCEPT ![j] = "handler"]
    /\ UNCHANGED <<sub, txs, lock, apiVars, job, task, polls, wbal, opVars, nlost, ghostVars, media>>

\* download_generated_video and build_result_data; on success
\* update_job_status_sync(job_id, JobStatus.COMPLETED, progress=100)
Download(j) ==
    /\ task[j].state = "running" /\ wpc[j] = "download"
    /\ \E ok \in BOOLEAN :
         IF ok
           THEN /\ job' = UpdateJobStatus(j, "completed", 100)
                /\ hist' = HistCompleted(j)
                /\ wpc' = [wpc EXCEPT ![j] = "node_completed"]
           ELSE /\ wpc' = [wpc EXCEPT ![j] = "handler"]
                /\ UNCHANGED <<job, hist>>
    /\ UNCHANGED <<sub, txs, lock, apiVars, node, task, polls, wbal, opVars, nlost, oldGhost, media>>

\* analyze_face: face_service.store_character_embedding, then on success
\* the character update and update_job_status_sync(COMPLETED, 100), on an
\* exception update_job_status_sync(FAILED)
Analyze(j) ==
    /\ task[j].state = "running" /\ wpc[j] = "analyze"
    /\ \E ok \in BOOLEAN :
         IF ok
           THEN /\ job' = UpdateJobStatus(j, "completed", 100)
                /\ hist' = HistCompleted(j)
                /\ wpc' = [wpc EXCEPT ![j] = "node_completed"]
                /\ UNCHANGED failedCount
           ELSE /\ job' = UpdateJobStatus(j, "failed", 0)
                /\ failedCount' = CountFailed(j, job')
                /\ wpc' = [wpc EXCEPT ![j] = "handler_node"]
                /\ UNCHANGED hist
    /\ UNCHANGED <<sub, txs, lock, apiVars, node, task, polls, wbal, opVars, nlost,
                   startCalls, firstPoll, everDone, timeouts, watch, media>>

\* update_node_status_sync(node_id, NodeStatus.COMPLETED); the task returns
\* and its message is acknowledged
NodeCompletedSkipsNode(j) ==
    /\ task[j].state = "running" /\ wpc[j] = "node_completed"
    /\ task' = [task EXCEPT ![j].state = "succeeded"]
    /\ wpc' = [wpc EXCEPT ![j] = "none"]
    /\ UNCHANGED <<sub, txs, lock, apiVars, job, node, polls, wbal, opVars, nlost, ghostVars, media>>
NodeCompleted(j) ==
    /\ task[j].state = "running" /\ wpc[j] = "node_completed"
    /\ node' = [node EXCEPT ![j] = "completed"]
    /\ task' = [task EXCEPT ![j].state = "succeeded"]
    /\ wpc' = [wpc EXCEPT ![j] = "none"]
    /\ UNCHANGED <<sub, txs, lock, apiVars, job, polls, wbal, opVars, nlost, ghostVars, media>>

\* the except block of _execute_video_operation: the status is written
\* only when the retries are exhausted
Handler(j) ==
    /\ task[j].state = "running" /\ wpc[j] = "handler"
    /\ IF RetriesExhausted(task[j].retries)
         THEN /\ job' = UpdateJobStatus(j, "failed", 0)
              /\ failedCount' = CountFailed(j, job')
              /\ wpc' = [wpc EXCEPT ![j] = "handler_node"]
         ELSE /\ wpc' = [wpc EXCEPT ![j] = "raise"]
              /\ UNCHANGED <<job, failedCount>>
    /\ UNCHANGED <<sub, txs, lock, apiVars, node, task, polls, wbal, opVars, nlost,
                   startCalls, firstPoll, everDone, timeouts, watch, hist, media>>

\* update_node_status_sync(node_id, NodeStatus.FAILED) of the except blocks,
\* then the refund when the retries are exhausted and the job was paid
HandlerNode(j) ==
    /\ task[j].state = "running" /\ wpc[j] = "handler_node"
    /\ node' = [node EXCEPT ![j] = "failed"]
    /\ wpc' = [wpc EXCEPT ![j] =
                 IF RetriesExhausted(task[j].retries) /\ credit_cost(j) > 0
                   THEN "refund" ELSE "raise"]
    /\ UNCHANGED <<sub, txs, lock, apiVars, job, task, polls, wbal, opVars, nlost, ghostVars, media>>

\* refund_credits_sync, the SELECT of the subscription by user_id
RefundSyncRead(j) ==
    /\ task[j].state = "running" /\ wpc[j] = "refund"
    /\ IF sub.status = "none"
         THEN /\ wpc' = [wpc EXCEPT ![j] = "raise"]
              /\ UNCHANGED wbal
         ELSE /\ wbal' = [wbal EXCEPT ![j] = sub.balance]
              /\ wpc' = [wpc EXCEPT ![j] = "refund_write"]
    /\ UNCHANGED <<sub, txs, lock, apiVars, job, node, task, polls, opVars, nlost, ghostVars, media>>

\* refund_credits_sync, credits_balance += amount, the refund row, commit
RefundSyncWrite(j) ==
    /\ task[j].state = "running" /\ wpc[j] = "refund_write"
    /\ lock = 0
    /\ sub' = [sub EXCEPT !.balance = wbal[j] + credit_cost(j)]
    /\ txs' = Append(txs, RefundTx(credit_cost(j), wbal[j] + credit_cost(j), j))
    /\ wbal' = [wbal EXCEPT ![j] = 0]
    /\ wpc' = [wpc EXCEPT ![j] = "raise"]
    /\ UNCHANGED <<lock, apiVars, job, node, task, polls, opVars, nlost, ghostVars, media>>

\* the exception leaves the task body: autoretry_for=(Exception,) publishes
\* the task again with retries + 1 while retries < max_retries, otherwise
\* the task has failed; either way this message is acknowledged
Raise(j) ==
    /\ task[j].state = "running" /\ wpc[j] = "raise"
    /\ task' = [task EXCEPT ![j] =
                  IF AutoretryFor(job[j].type) /\ RetriesLeft(task[j].retries)
                    THEN [state |-> "queued", retries |-> task[j].retries + 1]
                    ELSE [state |-> "failed", retries |-> task[j].retries]]
    /\ wpc' = [wpc EXCEPT ![j] = "none"]
    /\ polls' = [polls EXCEPT ![j] = 0]
    /\ UNCHANGED <<sub, txs, lock, apiVars, job, node, wbal, opVars, nlost, ghostVars, media>>

\* task_acks_late with task_reject_on_worker_lost: the worker process dies
\* before the message is acknowledged and the broker delivers the same
\* message (same retries) again
WorkerLost(j) ==
    /\ task[j].state = "running"
    /\ nlost < MaxRedeliver
    /\ nlost' = nlost + 1
    /\ task' = [task EXCEPT ![j].state = "queued"]
    /\ wpc' = [wpc EXCEPT ![j] = "none"]
    /\ polls' = [polls EXCEPT ![j] = 0]
    /\ wbal' = [wbal EXCEPT ![j] = 0]
    /\ UNCHANGED <<sub, txs, lock, apiVars, job, node, opVars, ghostVars, media>>

\* ------------------------------------------------------ stitch_service
\* Durations are counted in ticks of 0.2 ms: ffprobe reports more decimals
\* of a second than the three that the xfade filter string keeps.

TicksPerMs == 5

\* TRANSITION_DURATION = 0.5 (seconds)
TRANSITION_DURATION == 500 * TicksPerMs

\* the 5.0 that _get_video_duration returns when ffprobe gives no duration
ProbeFallback == 5000 * TicksPerMs

\* f"{offset:.3f}": the offset rounded to the nearest millisecond
Format3(x) == ((x + (TicksPerMs \div 2)) \div TicksPerMs) * TicksPerMs

\* max(x, 0.0)
Max0(x) == IF x > 0 THEN x ELSE 0

FadeNames == {"fade", "crossfade"}

\* the keys of ASPECT_RATIO_DIMENSIONS
ASPECT_RATIO_DIMENSIONS == {"9:16", "4:5", "1:1", "16:9"}

\* transitions padded with "cut" and cut to len(video_urls) - 1 entries
Normalise(transitions, n) ==
    [i \in 1..(n - 1) |-> IF i <= Len(transitions) THEN transitions[i] ELSE "cut"]

\* has_fade = any(t in ("fade", "crossfade") for t in transitions)
has_fade_only(transitions) ==
    \E i \in 1..Len(transitions) : transitions[i] = "fade"
has_fade(transitions) ==
    \E i \in 1..Len(transitions) : transitions[i] \in FadeNames

\* "fadeblack" if t == "crossfade" else "fadegrays"
xfade_type(t) == IF t = "crossfade" THEN "fadeblack" ELSE "fadegrays"

RECURSIVE SumSeq(_)
SumSeq(q) == IF q = <<>> THEN 0 ELSE Head(q) + SumSeq(Tail(q))

\* The length of what ffmpeg writes for the filter chain: an xfade output
\* ends where its second input ends, offset after the start of the first,
\* so the chain is as long as the last offset plus the last source.
XfadeLength(filters, sources) ==
    filters[Len(filters)].offset + sources[Len(sources)]

\* the task's keyword arguments, before stitch_service has run
MediaArgs(video_urls, transitions, aspect_ratio) ==
    [pc |-> "args", video_urls |-> video_urls, transitions |-> transitions,
     aspect_ratio |-> aspect_ratio, norm |-> <<>>, durations |-> <<>>,
     i |-> 0, cumulative_offset |-> 0, filters |-> <<>>, out |-> 0,
     reencoded |-> FALSE, path |-> "none", resized |-> FALSE,
     tmpdir |-> "none", nonzero |-> "none", uploaded |-> FALSE]

\* "with tempfile.TemporaryDirectory() as tmpdir" is left, by the end of its
\* block or by an exception: the directory and its files are deleted
KeepTmpdir(m) == m
LeaveTmpdir(m) == [m EXCEPT !.tmpdir = "removed"]

\* _run_ffmpeg: proc.returncode != 0 raises RuntimeError inside the with
\* block; step names the invocation
FfmpegFailed(m, step) ==
    LeaveTmpdir([m EXCEPT !.pc = IF m.pc \in {"concat", "encode", "resize"}
                                   THEN "raised" ELSE "export_raised",
                          !.nonzero = step])

\* stitch_videos, entry: the length check and the normalisation
StitchEnter(j) ==
    /\ task[j].state = "running" /\ wpc[j] = "stitch_service"
    /\ media.pc = "args"
    /\ media' = IF Len(media.video_urls) < 2
                  THEN [media EXCEPT !.pc = "raised"]
                  ELSE [media EXCEPT !.pc = "download", !.tmpdir = "exists",
                           !.norm = Normalise(media.transitions, Len(media.video_urls))]
    /\ UNCHANGED <<sub, txs, lock, apiVars, jobVars, opVars, nlost, ghostVars>>

\* 1. the downloads; raise_for_status raises on an HTTP error
StitchDownload(j) ==
    /\ task[j].state = "running" /\ wpc[j] = "stitch_service"
    /\ media.pc = "download"
    /\ \E ok \in BOOLEAN :
         media' = IF ~ok
                    THEN LeaveTmpdir([media EXCEPT !.pc = "raised"])
                    ELSE IF has_fade(media.norm)
                           THEN [media EXCEPT !.pc = "probe", !.path = "reencode"]
                           ELSE [media EXCEPT !.pc = "concat", !.path = "copy"]
    /\ UNCHANGED <<sub, txs, lock, apiVars, jobVars, opVars, nlost, ghostVars>>

\* 2a. cut only: the concat demuxer with stream copy
StitchConcat(j) ==
    /\ task[j].state = "running" /\ wpc[j] = "stitch_service"
    /\ media.pc = "concat"
    /\ \E ok \in BOOLEAN :
         media' = IF ok
                    THEN [media EXCEPT !.pc = "resize", !.out = SumSeq(media.video_urls)]
                    ELSE FfmpegFailed(media, "concat")
    /\ UNCHANGED <<sub, txs, lock, apiVars, jobVars, opVars, nlost, ghostVars>>

\* 2b. durations = gather(_get_video_duration(p) ...): each probe gives the
\* duration of the file or, when ffprobe exits non-zero with nothing to
\* parse, the fallback; then the locals of the xfade loop
StitchProbe(j) ==
    /\ task[j].state = "running" /\ wpc[j] = "stitch_service"
    /\ media.pc = "probe"
    /\ \E probed \in [1..Len(media.video_urls) -> BOOLEAN] :
         LET durations == [k \in 1..Len(media.video_urls) |->
                             IF probed[k] THEN media.video_urls[k] ELSE ProbeFallback]
         IN media' = [media EXCEPT !.pc = "xfade", !.durations = durations,
                         !.i = 1, !.cumulative_offset = durations[1],
                         !.filters = <<>>,
                         !.nonzero = IF \E k \in DOMAIN probed : ~probed[k]
                                       THEN "probe" ELSE @]
    /\ UNCHANGED <<sub, txs, lock, apiVars, jobVars, opVars, nlost, ghostVars>>

\* the xfade filter of junction i, as the loop body builds it
XfadeFilter(t, cumulative_offset) ==
    [transition |-> xfade_type(t), duration |-> TRANSITION_DURATION,
     offset |-> Format3(Max0(cumulative_offset - TRANSITION_DURATION))]

\* cumulative_offset += durations[i] - TRANSITION_DURATION
NextCumulativeNoOverlap(cumulative_offset, d) == cumulative_offset + d
NextCumulative(cumulative_offset, d) == cumulative_offset + d - TRANSITION_DURATION

\* one iteration of "for i in range(1, n)"; i is the junction, between
\* the sources i and i + 1 (Python's i - 1 and i)
StitchXfade(j) ==
    /\ task[j].state = "running" /\ wpc[j] = "stitch_service"
    /\ media.pc = "xfade"
    /\ media' =
         IF media.i < Len(media.video_urls)
           THEN [media EXCEPT
                   !.filters = Append(@, XfadeFilter(media.norm[media.i],
                                                     media.cumulative_offset)),
                   !.cumulative_offset = NextCumulative(@, media.durations[media.i + 1]),
                   !.i = @ + 1]
           ELSE [media EXCEPT !.pc = "encode"]
    /\ UNCHANGED <<sub, txs, lock, apiVars, jobVars, opVars, nlost, ghostVars>>

\* ffmpeg runs the filter_complex and re-encodes with libx264
StitchEncode(j) ==
    /\ task[j].state = "running" /\ wpc[j] = "stitch_service"
    /\ media.pc = "encode"
    /\ \E ok \in BOOLEAN :
         media' = IF ok
                    THEN [media EXCEPT !.pc = "resize", !.reencoded = TRUE,
                             !.out = XfadeLength(media.filters, media.video_urls)]
                    ELSE FfmpegFailed(media, "encode")
    /\ UNCHANGED <<sub, txs, lock, apiVars, jobVars, opVars, nlost, ghostVars>>

\* 3. the aspect-ratio resize, on the cut path only:
\* target_aspect_ratio and target_aspect_ratio in ASPECT_RATIO_DIMENSIONS
\* and not has_fade
StitchResize(j) ==
    /\ task[j].state = "running" /\ wpc[j] = "stitch_service"
    /\ media.pc = "resize"
    /\ IF /\ media.aspect_ratio # "none"
          /\ media.aspect_ratio \in ASPECT_RATIO_DIMENSIONS
          /\ ~has_fade(media.norm)
         THEN \E ok \in BOOLEAN :
                media' = IF ok THEN [media EXCEPT !.pc = "read", !.reencoded = TRUE,
                                        !.resized = TRUE]
                               ELSE FfmpegFailed(media, "resize")
         ELSE media' = [media EXCEPT !.pc = "read"]
    /\ UNCHANGED <<sub, txs, lock, apiVars, jobVars, opVars, nlost, ghostVars>>

\* 4. open(output_path, "rb") and f.read(), the last statement of the with
\* block
StitchRead(j) ==
    /\ task[j].state = "running" /\ wpc[j] = "stitch_service"
    /\ media.pc = "read"
    /\ \E ok \in BOOLEAN :
         media' = LeaveTmpdir([media EXCEPT !.pc = IF ok THEN "upload" ELSE "raised"])
    /\ UNCHANGED <<sub, txs, lock, apiVars, jobVars, opVars, nlost, ghostVars>>

\* the upload, after the with block; the signed URL is returned
StitchUpload(j) ==
    /\ task[j].state = "running" /\ wpc[j] = "stitch_service"
    /\ media.pc = "upload"
    /\ \E ok \in BOOLEAN :
         media' = IF ok THEN [media EXCEPT !.pc = "returned", !.uploaded = TRUE]
                        ELSE [media EXCEPT !.pc = "raised"]
    /\ UNCHANGED <<sub, txs, lock, apiVars, jobVars, opVars, nlost, ghostVars>>

\* ---------------------------------------- stitch_service, platform export

TicksPerSecond == 1000 * TicksPerMs

\* PLATFORM_PRESETS, the max_duration of each preset: <<>> stands for None
PLATFORM_PRESETS ==
    [tiktok          |-> [aspect_ratio |-> "9:16", max_duration |-> <<60 * TicksPerSecond>>],
     instagram_reels |-> [aspect_ratio |-> "9:16", max_duration |-> <<90 * TicksPerSecond>>],
     instagram_feed  |-> [aspect_ratio |-> "4:5",  max_duration |-> <<60 * TicksPerSecond>>],
     youtube_shorts  |-> [aspect_ratio |-> "9:16", max_duration |-> <<60 * TicksPerSecond>>],
     youtube         |-> [aspect_ratio |-> "16:9", max_duration |-> <<>>]]

\* the arguments of export_for_platform; source is the duration of the
\* video behind video_url
ExportArgs(source, platform) ==
    [pc |-> "export_args", source |-> source, platform |-> platform,
     max_dur |-> <<>>, downloaded |-> FALSE, probed |-> FALSE, duration |-> 0,
     trimmed |-> FALSE, out |-> 0,
     tmpdir |-> "none", nonzero |-> "none", uploaded |-> FALSE]

\* preset = PLATFORM_PRESETS.get(platform); an unknown platform raises
\* ValueError
ExportEnter ==
    /\ media.pc = "export_args"
    /\ media' = IF media.platform \in DOMAIN PLATFORM_PRESETS
                  THEN [media EXCEPT !.pc = "export_download", !.tmpdir = "exists",
                           !.max_dur = PLATFORM_PRESETS[media.platform].max_duration]
                  ELSE [media EXCEPT !.pc = "export_raised"]
    /\ UNCHANGED <<sub, txs, lock, apiVars, jobVars, opVars, nlost, ghostVars>>

\* 1. the download of the source
ExportDownload ==
    /\ media.pc = "export_download"
    /\ \E ok \in BOOLEAN :
         media' = IF ok THEN [media EXCEPT !.pc = "export_scale", !.downloaded = TRUE]
                        ELSE LeaveTmpdir([media EXCEPT !.pc = "export_raised",
                                                       !.downloaded = TRUE])
    /\ UNCHANGED <<sub, txs, lock, apiVars, jobVars, opVars, nlost, ghostVars>>

\* 2. scale / pad to the preset's resolution; output_path = scaled_path
ExportScale ==
    /\ media.pc = "export_scale"
    /\ \E ok \in BOOLEAN :
         media' = IF ok
                    THEN [media EXCEPT !.out = media.source,
                             !.pc = IF media.max_dur # <<>> THEN "export_probe"
                                                            ELSE "export_read"]
                    ELSE FfmpegFailed(media, "scale")
    /\ UNCHANGED <<sub, txs, lock, apiVars, jobVars, opVars, nlost, ghostVars>>

\* duration > max_dur
Exceeds(duration, max_dur) == duration > max_dur[1]

\* 3. duration = _get_video_duration(scaled_path): the duration of the file
\* or the fallback, and the comparison with max_dur
ExportProbe ==
    /\ media.pc = "export_probe"
    /\ \E ok \in BOOLEAN :
         LET duration == IF ok THEN media.source ELSE ProbeFallback
         IN media' = [media EXCEPT !.probed = ok, !.duration = duration,
                         !.nonzero = IF ok THEN @ ELSE "probe",
                         !.pc = IF Exceeds(duration, media.max_dur)
                                  THEN "export_trim" ELSE "export_read"]
    /\ UNCHANGED <<sub, txs, lock, apiVars, jobVars, opVars, nlost, ghostVars>>

\* ffmpeg -t max_dur -c copy: the first max_dur seconds of the scaled file
ExportTrim ==
    /\ media.pc = "export_trim"
    /\ \E ok \in BOOLEAN :
         media' = IF ok
                    THEN [media EXCEPT !.pc = "export_read", !.trimmed = TRUE,
                             !.out = IF media.source < media.max_dur[1]
                                       THEN media.source ELSE media.max_dur[1]]
                    ELSE FfmpegFailed(media, "trim")
    /\ UNCHANGED <<sub, txs, lock, apiVars, jobVars, opVars, nlost, ghostVars>>

\* 4. open(output_path, "rb") and f.read(), the last statement of the with
\* block
ExportRead ==
    /\ media.pc = "export_read"
    /\ \E ok \in BOOLEAN :
         media' = LeaveTmpdir([media EXCEPT !.pc = IF ok THEN "export_upload"
                                                         ELSE "export_raised"])
    /\ UNCHANGED <<sub, txs, lock, apiVars, jobVars, opVars, nlost, ghostVars>>

\* the upload, after the with block; the dict with the signed URL is returned
ExportUpload ==
    /\ media.pc = "export_upload"
    /\ \E ok \in BOOLEAN :
         media' = IF ok THEN [media EXCEPT !.pc = "export_returned", !.uploaded = TRUE]
                        ELSE [media EXCEPT !.pc = "export_raised"]
    /\ UNCHANGED <<sub, txs, lock, apiVars, jobVars, opVars, nlost, ghostVars>>

\* ------------------------------------------------- the stitch_videos task

\* the task body starts: update_job_status_sync(job_id, PROCESSING, progress=5)
StitchTaskStart(j) ==
    /\ task[j].state = "queued"
    /\ job[j].type = "video_stitch"
    /\ task' = [task EXCEPT ![j].state = "running"]
    /\ job' = UpdateJobStatus(j, "processing", 5)
    /\ wpc' = [wpc EXCEPT ![j] = "stitch_node"]
    /\ hist' = HistExec(j)
    /\ UNCHANGED <<sub, txs, lock, apiVars, node, polls, wbal, opVars, nlost, oldGhost,
                   media>>

\* update_node_status_sync(node_id, NodeStatus.PROCESSING)
StitchNodeProcessing(j) ==
    /\ task[j].state = "running" /\ wpc[j] = "stitch_node"
    /\ node' = [node EXCEPT ![j] = "processing"]
    /\ wpc' = [wpc EXCEPT ![j] = "stitch_progress"]
    /\ UNCHANGED <<sub, txs, lock, apiVars, job, task, polls, wbal, opVars, nlost,
                   ghostVars, media>>

\* update_job_status_sync(job_id, PROCESSING, progress=10), then the call
\* of stitch_service.stitch_videos with the task's arguments
StitchProgress(j) ==
    /\ task[j].state = "running" /\ wpc[j] = "stitch_progress"
    /\ job' = UpdateJobStatus(j, "processing", 10)
    /\ wpc' = [wpc EXCEPT ![j] = "stitch_service"]
    /\ media' = MediaArgs(media.video_urls, media.transitions, media.aspect_ratio)
    /\ UNCHANGED <<sub, txs, lock, apiVars, node, task, polls, wbal, opVars, nlost,
                   ghostVars>>

\* the service has returned: update_job_status_sync(COMPLETED, progress=100)
StitchReturn(j) ==
    /\ task[j].state = "running" /\ wpc[j] = "stitch_service"
    /\ media.pc = "returned"
    /\ job' = UpdateJobStatus(j, "completed", 100)
    /\ hist' = HistCompleted(j)
    /\ wpc' = [wpc EXCEPT ![j] = "node_completed"]
    /\ UNCHANGED <<sub, txs, lock, apiVars, node, task, polls, wbal, opVars, nlost,
                   oldGhost, media>>

\* except Exception: update_job_status_sync(job_id, FAILED, error=str(e))
StitchExcept(j) ==
    /\ task[j].state = "running" /\ wpc[j] = "stitch_service"
    /\ media.pc = "raised"
    /\ job' = UpdateJobStatus(j, "failed", 0)
    /\ failedCount' = CountFailed(j, job')
    /\ wpc' = [wpc EXCEPT ![j] = "stitch_node_failed"]
    /\ UNCHANGED <<sub, txs, lock, apiVars, node, task, polls, wbal, opVars, nlost,
                   startCalls, firstPoll, everDone, timeouts, watch, hist, media>>

\* update_node_status_sync(node_id, FAILED, ...), then raise
StitchNodeFailed(j) ==
    /\ task[j].state = "running" /\ wpc[j] = "stitch_node_failed"
    /\ node' = [node EXCEPT ![j] = "failed"]
    /\ wpc' = [wpc EXCEPT ![j] = "raise"]
    /\ UNCHANGED <<sub, txs, lock, apiVars, job, task, polls, wbal, opVars, nlost,
                   ghostVars, media>>

\* ------------------------------------------------------- specifications

NoSub == [status |-> "none", balance |-> 0, polar |-> FALSE]
TrialSub == [status |-> "trialing", balance |-> CREDITS_TRIAL, polar |-> FALSE]
TrialTxs == <<Tx("trial_allocation", CREDITS_TRIAL, CREDITS_TRIAL, 0, 0)>>
ActiveSub == [status |-> "active", balance |-> CREDITS_PRO_MONTHLY, polar |-> TRUE]
ActiveTxs == <<Tx("allocation", CREDITS_PRO_MONTHLY, CREDITS_PRO_MONTHLY, 0, 0)>>

InitRest ==
    /\ lock = 0
    /\ rpc = [r \in Req |-> "idle"]
    /\ rop = [r \in Req |-> "none"]
    /\ rsess = [r \in Req |-> NoSession]
    /\ rpend = [r \in Req |-> NoPending]
    /\ job = [r \in Req |-> NoJob]
    /\ node = [r \in Req |-> "idle"]
    /\ task = [r \in Req |-> NoTask]
    /\ wpc = [r \in Req |-> "none"]
    /\ polls = [r \in Req |-> 0]
    /\ wbal = [r \in Req |-> 0]
    /\ op = NoOp
    /\ nops = 0
    /\ nlost = 0
    /\ startCalls = [r \in Req |-> 0]
    /\ firstPoll = [r \in Req |-> "none"]
    /\ everDone = [r \in Req |-> FALSE]
    /\ failedCount = [r \in Req |-> 0]
    /\ timeouts = [r \in Req |-> 0]
    /\ hist = [r \in Req |-> NoHist]

\* what is left of the trial credits after one standard video generation
OneVideoLeft == CREDITS_TRIAL - CREDIT_COSTS("video_generation_standard")
OneVideoLeftSub == [TrialSub EXCEPT !.balance = OneVideoLeft]
OneVideoLeftTxs ==
    TrialTxs \o <<DeductionTx(CREDIT_COSTS("video_generation_standard"), OneVideoLeft, 0)>>

\* The user has no subscription yet, or is on a trial that has paid for one
\* standard video generation before, or has an activated subscription; none
\* of the requests of Req has been made.
Init ==
    /\ \/ sub = NoSub /\ txs = <<>>
       \/ sub = OneVideoLeftSub /\ txs = OneVideoLeftTxs
       \/ sub = ActiveSub /\ txs = ActiveTxs
    /\ InitRest
    /\ watch = {}
    /\ media = NoMedia

LedgerOp ==
    \/ CreateTrial
    \/ ActivateSubscription
    \/ CancelSubscription
    \/ RevokeSubscription
    \/ RenewalRead
    \/ RenewalWrite
    \/ RewardRead
    \/ RewardWrite
    \/ RefundRead
    \/ RefundWrite

Endpoint(r) ==
    \/ \E o \in OperationTypes : Submit(r, o)
    \/ DeductLock(r)
    \/ DeductFlush(r)
    \/ Lookup(r)
    \/ CommitDeduction(r)
    \/ CreateNode(r)
    \/ CreateJob(r)
    \/ Dispatch(r)

Worker(j) ==
    \/ TaskStart(j)
    \/ NodeProcessing(j)
    \/ StartOperation(j)
    \/ Poll(j)
    \/ PollTimeout(j)
    \/ ErrorNode(j)
    \/ Download(j)
    \/ Analyze(j)
    \/ NodeCompleted(j)
    \/ Handler(j)
    \/ HandlerNode(j)
    \/ RefundSyncRead(j)
    \/ RefundSyncWrite(j)
    \/ Raise(j)

Next ==
    \/ LedgerOp
    \/ \E r \in 1..NMain : Endpoint(r)
    \/ \E j \in 1..NWork : Worker(j)

\* The ledger, the paid endpoints and the tasks of the first NWork jobs.
Spec == Init /\ [][Next]_vars

\* NReq concurrent requests of a user whose trial balance is down to the
\* cost of one standard video generation.
InitRace ==
    /\ sub = OneVideoLeftSub
    /\ txs = OneVideoLeftTxs
    /\ InitRest
    /\ watch = {}
    /\ media = NoMedia

NextRace == \E r \in Req : Endpoint(r)

RaceSpec == InitRace /\ [][NextRace]_vars

\* One paid job from the moment its endpoint has dispatched it: the state
\* Spec reaches when a trial user's first request is done.  The history of
\* the job is recorded.
InitJob ==
    \E o \in OperationTypes :
      LET left == CREDITS_TRIAL - CREDIT_COSTS(o) IN
        /\ sub = [TrialSub EXCEPT !.balance = left]
        /\ txs = TrialTxs \o <<DeductionTx(CREDIT_COSTS(o), left, 1)>>
        /\ lock = 0
        /\ rpc = [r \in Req |-> IF r = 1 THEN "done" ELSE "idle"]
        /\ rop = [r \in Req |-> IF r = 1 THEN o ELSE "none"]
        /\ rsess = [r \in Req |-> IF r = 1 THEN [loaded |-> TRUE, balance |-> left]
                                           ELSE NoSession]
        /\ rpend = [r \in Req |-> NoPending]
        /\ job = [r \in Req |-> IF r = 1
                                  THEN [status |-> "pending", progress |-> 0,
                                        type |-> JobTypeOf(o)]
                                  ELSE NoJob]
        /\ node = [r \in Req |-> IF r = 1 THEN "processing" ELSE "idle"]
        /\ task = [r \in Req |-> IF r = 1 THEN [state |-> "queued", retries |-> 0]
                                          ELSE NoTask]
        /\ wpc = [r \in Req |-> "none"]
        /\ polls = [r \in Req |-> 0]
        /\ wbal = [r \in Req |-> 0]
        /\ op = NoOp
        /\ nops = 0
        /\ nlost = 0
        /\ startCalls = [r \in Req |-> 0]
        /\ firstPoll = [r \in Req |-> "none"]
        /\ everDone = [r \in Req |-> FALSE]
        /\ failedCount = [r \in Req |-> 0]
        /\ timeouts = [r \in Req |-> 0]
        /\ hist = [r \in Req |-> NoHist]
        /\ watch = {1}
        /\ media = NoMedia

NextJob == Worker(1)

\* The worker pool keeps executing: a queued message is delivered and a
\* running task body takes its next step.
JobSpec == InitJob /\ [][NextJob]_vars /\ WF_vars(Worker(1))

NextRedelivery ==
    \/ Worker(1)
    \/ WorkerLost(1)

\* The same, with up to MaxRedeliver losses of the worker process.
RedeliverySpec == InitJob /\ [][NextRedelivery]_vars /\ WF_vars(Worker(1))

\* the sources a stitch request names, by their durations: 0.2 s, 5 s and
\* 8.0334 s
SourceDurations == {200 * TicksPerMs, 5000 * TicksPerMs, (8033 * TicksPerMs) + 2}

TransitionNames == {"cut", "fade", "crossfade"}

\* video_urls of a request the endpoint accepts: at least two sources
VideoLists == UNION {[1..n -> SourceDurations] : n \in 2..MaxVideos}

\* transitions of a request: any length, the service normalises it
TransitionLists == UNION {[1..k -> TransitionNames] : k \in 0..(MaxVideos - 1)}

\* aspect_ratio of a request: absent, a key of ASPECT_RATIO_DIMENSIONS, or
\* another string
AspectRatios == {"none", "9:16", "21:9"}

\* One stitch job from the moment stitch_videos_endpoint has dispatched it
\* for a trial user: nothing was deducted, the node is PROCESSING, the Job
\* row PENDING and the message queued with the request's arguments.
InitStitch ==
    /\ sub = TrialSub
    /\ txs = TrialTxs
    /\ lock = 0
    /\ rpc = [r \in Req |-> IF r = 1 THEN "done" ELSE "idle"]
    /\ rop = [r \in Req |-> "none"]
    /\ rsess = [r \in Req |-> IF r = 1 THEN [loaded |-> TRUE, balance |-> CREDITS_TRIAL]
                                       ELSE NoSession]
    /\ rpend = [r \in Req |-> NoPending]
    /\ job = [r \in Req |-> IF r = 1
                              THEN [status |-> "pending", progress |-> 0,
                                    type |-> "video_stitch"]
                              ELSE NoJob]
    /\ node = [r \in Req |-> IF r = 1 THEN "processing" ELSE "idle"]
    /\ task = [r \in Req |-> IF r = 1 THEN [state |-> "queued", retries |-> 0]
                                      ELSE NoTask]
    /\ wpc = [r \in Req |-> "none"]
    /\ polls = [r \in Req |-> 0]
    /\ wbal = [r \in Req |-> 0]
    /\ op = NoOp
    /\ nops = 0
    /\ nlost = 0
    /\ startCalls = [r \in Req |-> 0]
    /\ firstPoll = [r \in Req |-> "none"]
    /\ everDone = [r \in Req |-> FALSE]
    /\ failedCount = [r \in Req |-> 0]
    /\ timeouts = [r \in Req |-> 0]
    /\ hist = [r \in Req |-> NoHist]
    /\ watch = {1}
    /\ \E video_urls \in VideoLists, transitions \in TransitionLists,
          aspect_ratio \in AspectRatios :
         media = MediaArgs(video_urls, transitions, aspect_ratio)

StitchService(j) ==
    \/ StitchEnter(j)
    \/ StitchDownload(j)
    \/ StitchConcat(j)
    \/ StitchProbe(j)
    \/ StitchXfade(j)
    \/ StitchEncode(j)
    \/ StitchResize(j)
    \/ StitchRead(j)
    \/ StitchUpload(j)

StitchWorker(j) ==
    \/ StitchTaskStart(j)
    \/ StitchNodeProcessing(j)
    \/ StitchProgress(j)
    \/ StitchService(j)
    \/ StitchReturn(j)
    \/ StitchExcept(j)
    \/ StitchNodeFailed(j)
    \/ NodeCompleted(j)
    \/ Raise(j)

NextStitch ==
    \/ StitchWorker(1)
    \/ WorkerLost(1)

\* The stitch task and the stitch service it calls, with up to MaxRedeliver
\* losses of the worker process.
StitchSpec == InitStitch /\ [][NextStitch]_vars /\ WF_vars(StitchWorker(1))

\* the sources of an export, by their durations in seconds
ExportSeconds == {3, 40, 60, 61, 70, 95}

Platforms == DOMAIN PLATFORM_PRESETS \cup {"vimeo"}

\* One call of export_for_platform for a trial user; no paid request and no
\* job of Req is under way.
InitExport ==
    /\ sub = TrialSub
    /\ txs = TrialTxs
    /\ InitRest
    /\ watch = {}
    /\ \E seconds \in ExportSeconds, platform \in Platforms :
         media = ExportArgs(seconds * TicksPerSecond, platform)

NextExport ==
    \/ ExportEnter
    \/ ExportDownload
    \/ ExportScale
    \/ ExportProbe
    \/ ExportTrim
    \/ ExportRead
    \/ ExportUpload

ExportSpec == InitExport /\ [][NextExport]_vars

\* --------------------------------------------- failures outside the try
\* celery_task.delay(...) raises because the broker cannot be reached:
\* nothing around the call catches it, the commits before it stay, and the
\* request ends with an error response
DispatchFails(r) ==
    /\ rpc[r] = "dispatch"
    /\ rpc' = [rpc EXCEPT ![r] = "error"]
    /\ UNCHANGED <<sub, txs, lock, rop, rsess, rpend, jobVars, opVars, nlost, ghostVars,
                   media>>

\* A statement of the task body that no try block encloses raises: the
\* write of the node status or a database load at the head of generate_video
\* / extend_video / analyze_face, or the character update that follows the
\* try block of analyze_face.  No except block runs, so no status is written
\* and nothing is refunded, whatever the value of retries.
Unguarded(j) ==
    /\ task[j].state = "running"
    /\ wpc[j] \in {"node_processing", "start", "analyze"}
    /\ wpc' = [wpc EXCEPT ![j] = "raise"]
    /\ UNCHANGED <<sub, txs, lock, apiVars, job, node, task, polls, wbal, opVars, nlost,
                   ghostVars, media>>

\* One paid request whose deduction and Job row are committed and whose
\* task is about to be dispatched: the state Spec reaches when CreateJob of a
\* trial user's first request is done.  The history of the job is recorded.
InitCharged ==
    \E o \in OperationTypes :
      LET left == CREDITS_TRIAL - CREDIT_COSTS(o) IN
        /\ sub = [TrialSub EXCEPT !.balance = left]
        /\ txs = TrialTxs \o <<DeductionTx(CREDIT_COSTS(o), left, 1)>>
        /\ lock = 0
        /\ rpc = [r \in Req |-> IF r = 1 THEN "dispatch" ELSE "idle"]
        /\ rop = [r \in Req |-> IF r = 1 THEN o ELSE "none"]
        /\ rsess = [r \in Req |-> IF r = 1 THEN [loaded |-> TRUE, balance |-> left]
                                           ELSE NoSession]
        /\ rpend = [r \in Req |-> NoPending]
        /\ job = [r \in Req |-> IF r = 1
                                  THEN [status |-> "pending", progress |-> 0,
                                        type |-> JobTypeOf(o)]
                                  ELSE NoJob]
        /\ node = [r \in Req |-> IF r = 1 THEN "processing" ELSE "idle"]
        /\ task = [r \in Req |-> NoTask]
        /\ wpc = [r \in Req |-> "none"]
        /\ polls = [r \in Req |-> 0]
        /\ wbal = [r \in Req |-> 0]
        /\ op = NoOp
        /\ nops = 0
        /\ nlost = 0
        /\ startCalls = [r \in Req |-> 0]
        /\ firstPoll = [r \in Req |-> "none"]
        /\ everDone = [r \in Req |-> FALSE]
        /\ failedCount = [r \in Req |-> 0]
        /\ timeouts = [r \in Req |-> 0]
        /\ hist = [r \in Req |-> NoHist]
        /\ watch = {1}
        /\ media = NoMedia

FaultyPipeline ==
    \/ Dispatch(1)
    \/ DispatchFails(1)
    \/ Worker(1)
    \/ Unguarded(1)
    \/ WorkerLost(1)

\* The endpoint finishes, and the worker pool keeps executing.
FaultSpec ==
    /\ InitCharged
    /\ [][FaultyPipeline]_vars
    /\ WF_vars(Dispatch(1) \/ DispatchFails(1))
    /\ WF_vars(Worker(1) \/ Unguarded(1))

\* ------------------------------------------- generate_video_with_retry
\* The text of an exception raised by veo_service.generate_video is
\* modelled by the set of the four words the classifier looks for that the
\* lower-cased text contains.
Keywords == {"quota", "rate", "safety", "blocked"}
ErrorTexts == SUBSET Keywords

\* "x in error_str"
Mentions(error_str, word) == word \in error_str

\* asyncio.sleep(30 * (attempt + 1)) and asyncio.sleep(5 * (attempt + 1))
RateLimitWait(attempt) == 30 * (attempt + 1)
TransientWait(attempt) == 5 * (attempt + 1)

\* the branch of the except block taken for an error text: the test for
\* quota / rate comes first, the test for safety / blocked second
Classify(error_str) ==
    IF Mentions(error_str, "quota") \/ Mentions(error_str, "rate")
      THEN "rate_limited"
      ELSE IF Mentions(error_str, "safety") \/ Mentions(error_str, "blocked")
             THEN "blocked"
             ELSE "transient"

\* the arguments and locals of one call of generate_video_with_retry; log
\* keeps, for every failed attempt, the text and what the handler did
RetryArgs(n) ==
    [pc |-> "retry_loop", max_retries |-> n, attempt |-> 0, calls |-> 0,
     log |-> <<>>]

\* one iteration of "for attempt in range(max_retries)": the call of
\* generate_video returns the operation id or raises, and the except block
\* sleeps or re-raises
RetryAttempt ==
    /\ media.pc = "retry_loop"
    /\ media.attempt < media.max_retries
    /\ \/ media' = [media EXCEPT !.pc = "retry_returned", !.calls = @ + 1]
       \/ \E error_str \in ErrorTexts :
            LET class == Classify(error_str) IN
              media' = [media EXCEPT
                          !.calls = @ + 1,
                          !.log = Append(@, [error |-> error_str,
                                             did |-> IF class = "blocked"
                                                       THEN "raise" ELSE "sleep",
                                             wait |-> CASE class = "rate_limited" ->
                                                             RateLimitWait(media.attempt)
                                                        [] class = "transient" ->
                                                             TransientWait(media.attempt)
                                                        [] OTHER -> 0]),
                          !.attempt = IF class = "blocked" THEN @ ELSE @ + 1,
                          !.pc = IF class = "blocked" THEN "retry_raised" ELSE @]
    /\ UNCHANGED <<sub, txs, lock, apiVars, jobVars, opVars, nlost, ghostVars>>

\* the loop is over: raise last_error
RetryExhausted ==
    /\ media.pc = "retry_loop"
    /\ ~(media.attempt < media.max_retries)
    /\ media' = [media EXCEPT !.pc = "retry_raised"]
    /\ UNCHANGED <<sub, txs, lock, apiVars, jobVars, opVars, nlost, ghostVars>>

\* One call of generate_video_with_retry; no paid request and no job of Req
\* is under way.
InitRetry ==
    /\ sub = TrialSub
    /\ txs = TrialTxs
    /\ InitRest
    /\ watch = {}
    /\ \E n \in 0..MaxRetriesArg : media = RetryArgs(n)

NextRetry ==
    \/ RetryAttempt
    \/ RetryExhausted

RetrySpec == InitRetry /\ [][NextRetry]_vars

\* One stitch job or one export: the two operations of stitch_service.
InitMedia == InitStitch \/ InitExport

NextMedia ==
    \/ NextStitch
    \/ NextExport

MediaSpec == InitMedia /\ [][NextMedia]_vars

\* ---------------------------------------------------------------- claims

TxIndexes == 1..Len(txs)

\* the refund rows correlated with job j
Refunds(j) == {i \in TxIndexes : txs[i].type = "refund" /\ txs[i].job = j}

\* the committed deduction rows written by the session of request r
Deductions(r) == {i \in TxIndexes : txs[i].type = "deduction" /\ txs[i].by = r}

\* the request has got through deduct_credits and its first commit
Charged(r) == rpc[r] \in {"createnode", "createjob", "dispatch", "done"}

\* C1: with a balance equal to the cost of one request, when all of the
\* concurrent requests for that cost have ended in a committed deduction or
\* in InsufficientCredits, exactly one of them has the deduction and all
\* the others have InsufficientCredits.
C1_ExactlyOneSucceeds ==
    (\A r \in Req : /\ rop[r] # "none"
                    /\ CREDIT_COSTS(rop[r]) = OneVideoLeft
                    /\ (Charged(r) \/ rpc[r] = "insufficient"))
    => /\ Cardinality({r \in Req : Charged(r)}) = 1
       /\ Cardinality({r \in Req : rpc[r] = "insufficient"}) = NReq - 1

\* C2: the committed balance of the subscription, and every balance that a
\* request has flushed and not yet committed, is >= 0 in every state.
C2_BalanceNonNegative ==
    /\ sub.balance >= 0
    /\ \A r \in Req : rpend[r].balance >= 0

\* the balance is used up by committed deductions of both requests
C2_Witness ==
    /\ sub.balance = 0
    /\ Deductions(1) # {}
    /\ Deductions(2) # {}

C3_LastTxMatches ==
    Len(txs) > 0 => sub.balance = txs[Len(txs)].balance_after

C3_BalanceChangeHasRow ==
    sub'.balance # sub.balance
    => /\ Len(txs') > Len(txs)
       /\ SubSeq(txs', 1, Len(txs)) = txs

\* C3: in every committed state the balance equals balance_after of the
\* most recent transaction, and every step that changes the balance appends
\* at least one transaction in the same step, leaving the earlier rows as
\* they were.
C3_BalanceMatchesLedger ==
    /\ []C3_LastTxMatches
    /\ [][C3_BalanceChangeHasRow]_vars

\* a refund of the task has been committed after a deduction of the other
\* request, and a background operation has written to the ledger too
C3_Witness ==
    /\ Len(txs) >= 4
    /\ txs[Len(txs)].type = "refund"
    /\ txs[Len(txs)].job = 1
    /\ Deductions(2) # {}
    /\ nops > 0

\* C4: no step changes the status of a job that is COMPLETED or FAILED.
C4_TerminalStatusImmutable ==
    [][\A j \in Req : job[j].status \in {"completed", "failed"}
                      => job'[j].status = job[j].status]_vars

\* C5: a job is moved to FAILED at most once and refunded at most once, and
\* a job whose task has failed for good (retries exhausted) has been moved
\* to FAILED exactly once and has exactly one refund row, redeliveries of
\* the task included.
C5_FailedOnceRefundedOnce ==
    \A j \in watch :
       /\ failedCount[j] <= 1
       /\ Cardinality(Refunds(j)) <= 1
       /\ task[j].state = "failed"
            => failedCount[j] = 1 /\ Cardinality(Refunds(j)) = 1

\* C6: a standard video generation job (25 credits) whose first poll
\* reported a safety-blocked error is FAILED from then on, its task is
\* never retried, the provider start call has run exactly once, and once
\* the task has ended there is exactly one refund row, of +25.
C6_SafetyBlockedNoRetry ==
    \A j \in watch :
       (rop[j] = "video_generation_standard" /\ firstPoll[j] = "safety")
       => /\ job[j].status = "failed"
          /\ task[j].retries = 0
          /\ startCalls[j] = 1
          /\ task[j].state = "failed"
               => /\ Cardinality(Refunds(j)) = 1
                  /\ \A i \in Refunds(j) : txs[i].amount = 25

IsVideo(j) == job[j].type \in {"video_generation", "video_extension"}

C7_PollsBounded == \A j \in Req : polls[j] <= max_polls

\* a timeout is raised only when max_polls polls have been made, and it
\* takes the attempt to the except block
C7_TimeoutStep ==
    \A j \in Req :
       (wpc[j] = "poll" /\ wpc'[j] = "handler") => polls[j] = max_polls

\* an attempt that raises with retries left is published again, with one
\* retry more (the step of a lost worker is not a raise)
C7_RetryStep ==
    \A j \in Req :
       (wpc[j] = "raise" /\ wpc'[j] = "none" /\ nlost' = nlost
        /\ task[j].retries < max_retries)
       => task'[j] = [state |-> "queued", retries |-> task[j].retries + 1]

C7_ExhaustedIsFailedAndRefunded ==
    \A j \in Req :
       task[j].state = "failed"
       => /\ job[j].status = "failed"
          /\ \E i \in Refunds(j) : txs[i].amount = credit_cost(j)

\* C7: an attempt of a video job polls at most max_polls times and then
\* raises the timeout; an attempt that raises with retries left is retried;
\* a task whose retries are exhausted leaves the job FAILED and refunded;
\* and a dispatched video job whose operation is never reported done does
\* reach that end.
C7_TimeoutRetriedThenFailedRefunded ==
    /\ []C7_PollsBounded
    /\ [][C7_TimeoutStep /\ C7_RetryStep]_vars
    /\ []C7_ExhaustedIsFailedAndRefunded
    /\ \A j \in {1} :
         (IsVideo(j) /\ task[j].state = "queued")
         ~> (everDone[j] \/ (/\ task[j].state = "failed"
                             /\ job[j].status = "failed"
                             /\ Refunds(j) # {}))

\* the first poll said not done, the provider never reported done, and the
\* task has used up its retries
C7_Witness ==
    /\ IsVideo(1)
    /\ firstPoll[1] = "not_done"
    /\ ~everDone[1]
    /\ task[1] = [state |-> "failed", retries |-> max_retries]
    /\ job[1].status = "failed"
    /\ Refunds(1) # {}

\* C8: whenever the Job row of a request exists, or its task has been
\* published, the deduction of that request is committed, with the cost
\* of the request's operation.
C8_DeductionBeforeJob ==
    \A r \in Req :
       (job[r].status # "none" \/ task[r].state # "none")
       => \E i \in Deductions(r) : txs[i].amount = -CREDIT_COSTS(rop[r])

\* a worker is executing the job of request 1
C8_Witness ==
    /\ task[1].state = "running"
    /\ job[1].status = "processing"
    /\ Deductions(1) # {}

\* C9: a job that has a refund row is not PENDING or PROCESSING.
C9_FailedBeforeRefund ==
    \A j \in Req :
       Refunds(j) # {} => job[j].status \notin {"pending", "processing"}

\* deduct_credits compares and either raises or flushes
C10_FailsWhenShort ==
    \A r \in Req :
       /\ (rpc[r] = "locked" /\ rpc'[r] # "locked"
           /\ sub.balance < CREDIT_COSTS(rop[r]))
          => rpc'[r] = "insufficient"
       /\ (rpc[r] = "deduct" /\ rpc'[r] # "deduct"
           /\ sub.status \notin EligibleStatuses)
          => rpc'[r] = "insufficient"

C10_FailureStepWritesNothing ==
    \A r \in Req :
       (rpc[r] # "insufficient" /\ rpc'[r] = "insufficient")
       => UNCHANGED <<sub, txs, job, node, task>>

C10_NoTrace ==
    \A r \in Req :
       rpc[r] = "insufficient"
       => /\ Deductions(r) = {}
          /\ job[r] = NoJob
          /\ task[r] = NoTask
          /\ node[r] = "idle"
          /\ ~rpend[r].set

\* C10: deduct_credits raises InsufficientCredits whenever there is no
\* eligible subscription or the balance is below the amount, and a request
\* that ends so changes neither the balance nor the transaction log, has
\* no Job row and no task, and leaves its node as it was.
C10_InsufficientFailsWithoutTrace ==
    /\ [][C10_FailsWhenShort /\ C10_FailureStepWritesNothing]_vars
    /\ []C10_NoTrace

\* the rows a step has appended to the transaction log
NewTxs == SubSeq(txs', Len(txs) + 1, Len(txs'))

\* C11: when a deduct_credits call of amount a on a subscription whose
\* balance is b >= a is committed, exactly one row is appended, of type
\* deduction, amount -a and balance_after b - a, and the balance of the
\* subscription becomes b - a.
C11_DeductionIsBMinusA ==
    [][\A r \in Req :
         LET a == CREDIT_COSTS(rop[r])
             b == sub.balance
         IN (rpc[r] = "commit" /\ rpc'[r] # "commit" /\ b >= a)
            => /\ Len(NewTxs) = 1
               /\ NewTxs[1].type = "deduction"
               /\ NewTxs[1].amount = -a
               /\ NewTxs[1].balance_after = b - a
               /\ sub'.balance = b - a]_vars

RECURSIVE SumAmounts(_)
SumAmounts(rows) ==
    IF rows = <<>> THEN 0 ELSE Head(rows).amount + SumAmounts(Tail(rows))

\* C12: a step that writes an allocation row while the balance it replaces
\* is greater than 0 appends an expiration row of minus the old balance with
\* balance_after 0 and then the allocation row, and the amounts of the rows
\* it appends sum to the change of the balance.
C12_ExpirationBeforeAllocation ==
    [][(/\ Len(NewTxs) > 0
        /\ NewTxs[Len(NewTxs)].type = "allocation"
        /\ sub.balance > 0)
       => /\ Len(NewTxs) = 2
          /\ NewTxs[1].type = "expiration"
          /\ NewTxs[1].amount = -sub.balance
          /\ NewTxs[1].balance_after = 0
          /\ NewTxs[2].balance_after = sub'.balance
          /\ SumAmounts(NewTxs) = sub'.balance - sub.balance]_vars

\* C13: a step that appends a deduction or a refund row and changes the
\* balance finds the subscription active, trialing or canceled: the balance
\* of an expired or revoked subscription is not altered by a deduction or a
\* refund.
C13_OnlyEligibleBalanceChanges ==
    [][(/\ sub'.balance # sub.balance
        /\ Len(NewTxs) > 0
        /\ NewTxs[Len(NewTxs)].type \in {"deduction", "refund"})
       => sub.status \in EligibleStatuses]_vars

\* C14: the progress of every job is within 0..100, and no step lowers the
\* progress of a job whose status is PROCESSING before and after the step.
C14_ProgressMonotonic ==
    /\ [](\A j \in Req : job[j].progress \in 0..100)
    /\ [][\A j \in Req :
            (job[j].status = "processing" /\ job'[j].status = "processing")
            => job'[j].progress >= job[j].progress]_vars

\* every attempt of j that the provider has started has ended in a poll
\* timeout
OnlyTimeouts(j) == IsVideo(j) /\ startCalls[j] > 0 /\ timeouts[j] = startCalls[j]

\* C19 as stated: a video job whose attempts end in poll timeouts is
\* retried once; after the second timeout no further attempt is published
\* and the job is FAILED, so it runs at most two attempts.
C19_TimeoutRetriedOnce ==
    \A j \in watch :
       OnlyTimeouts(j)
       => /\ startCalls[j] <= 2
          /\ (timeouts[j] = 2 /\ wpc[j] = "none")
               => task[j].state = "failed" /\ job[j].status = "failed"

\* C19 as amended: a video job whose attempts end in poll timeouts is
\* retried while retries are left; it runs at most max_retries + 1
\* attempts, its task fails only after max_retries + 1 timeouts, and the
\* job is FAILED only then.
C19_TimeoutRetriedWhileRetriesLeft ==
    \A j \in watch :
       OnlyTimeouts(j)
       => /\ startCalls[j] <= max_retries + 1
          /\ task[j].state = "failed"
               => timeouts[j] = max_retries + 1 /\ job[j].status = "failed"
          /\ job[j].status = "failed" => timeouts[j] = max_retries + 1
          /\ (wpc[j] = "none" /\ timeouts[j] <= max_retries)
               => task[j] = [state |-> "queued", retries |-> timeouts[j]]

\* four attempts have timed out and the task has failed
C19_Witness ==
    /\ OnlyTimeouts(1)
    /\ timeouts[1] = max_retries + 1
    /\ task[1].state = "failed"
    /\ job[1].status = "failed"

\* C20: an attempt of generate_video, extend_video or analyze_face that
\* fails while a retry is still going to run writes status FAILED neither
\* to the job nor to its node: a step that moves the job or the node to
\* FAILED belongs to an attempt whose retries are exhausted.
C20_OnlyFinalFailurePersisted ==
    [][\A j \in Req :
         (\/ job'[j].status = "failed" /\ job[j].status # "failed"
          \/ node'[j] = "failed" /\ node[j] # "failed")
         => ~(task[j].retries < max_retries)]_vars

\* the number of fade / crossfade junctions of a transition list
FadeCount(transitions) ==
    Cardinality({i \in 1..Len(transitions) : transitions[i] \in FadeNames})

\* C15: a stitch that returns has produced an output as long as the sum of
\* its sources minus TRANSITION_DURATION for every fade or crossfade
\* junction of its transition list (cut junctions taking nothing); three
\* sources of 5 s with [cut, fade] give 14.5 s.
C15_StitchedDuration ==
    media.pc = "returned"
    => media.out = SumSeq(media.video_urls)
                   - (FadeCount(media.norm) * TRANSITION_DURATION)

\* d_1 + ... + d_i of the probed durations
DurationsUpTo(i) == SumSeq(SubSeq(media.durations, 1, i))

\* the junctions for which the loop has built a filter
Junctions == 1..Len(media.filters)

\* C16 as stated: junction i gets a dissolve of length T starting at
\* offset_i = (d_1 + ... + d_i) - i x T, and the offsets are non-negative
\* and non-decreasing in i.
C16_OffsetsAsStated ==
    \A i \in Junctions :
       /\ media.filters[i].duration = TRANSITION_DURATION
       /\ media.filters[i].offset = DurationsUpTo(i) - (i * TRANSITION_DURATION)
       /\ media.filters[i].offset >= 0
       /\ i > 1 => media.filters[i].offset >= media.filters[i - 1].offset

\* x is y rounded to the millisecond
RoundedToMs(x, y) ==
    /\ x % TicksPerMs = 0
    /\ 2 * (x - y) < TicksPerMs
    /\ 2 * (y - x) < TicksPerMs

\* C16 as amended: junction i gets a dissolve of length T starting at
\* max(cumulative_i - T, 0) rounded to the millisecond, where
\* cumulative_i = (d_1 + ... + d_i) - (i - 1) x T; the offsets are
\* non-negative; and when no source is shorter than T the offset is
\* (d_1 + ... + d_i) - i x T rounded to the millisecond and the offsets
\* are non-decreasing in i.
C16_OffsetsClampedAndRounded ==
    /\ \A i \in Junctions :
          /\ media.filters[i].duration = TRANSITION_DURATION
          /\ RoundedToMs(media.filters[i].offset,
                         Max0(DurationsUpTo(i) - (i * TRANSITION_DURATION)))
          /\ media.filters[i].offset >= 0
          /\ (\A k \in 1..Len(media.durations) :
                 media.durations[k] >= TRANSITION_DURATION)
             => /\ RoundedToMs(media.filters[i].offset,
                               DurationsUpTo(i) - (i * TRANSITION_DURATION))
                /\ i > 1 => media.filters[i].offset >= media.filters[i - 1].offset
    /\ media.pc = "xfade"
         => media.cumulative_offset =
              DurationsUpTo(media.i) - ((media.i - 1) * TRANSITION_DURATION)

\* a re-encoded stitch of three sources has returned; its first source is
\* shorter than the transition, so the first offset is the clamped 0
C16_Witness ==
    /\ media.pc = "returned"
    /\ Len(media.filters) = 2
    /\ media.durations[1] < TRANSITION_DURATION
    /\ media.filters[1].offset = 0
    /\ media.filters[2].offset > 0

\* the exception of the assembler leaves the task body
C18_RaiseEndsTask ==
    \A j \in Req :
       /\ (wpc[j] = "stitch_service" /\ media.pc = "raised"
           /\ wpc'[j] # wpc[j] /\ nlost' = nlost)
          => job'[j].status = "failed"
       /\ (wpc[j] = "raise" /\ wpc'[j] = "none" /\ nlost' = nlost)
          => task'[j] = [state |-> "failed", retries |-> 0]
       /\ task[j].state = "failed" => (task'[j] = task[j] /\ job'[j] = job[j])

C18_FailedWithoutRetryOrTx ==
    \A j \in Req :
       job[j].type = "video_stitch"
       => /\ task[j].retries = 0
          /\ \A i \in TxIndexes : txs[i].job # j
          /\ task[j].state = "failed"
               => job[j].status = "failed" /\ node[j] = "failed"

\* C18: when the assembler of a stitch job raises, the job and then its
\* node are written FAILED and the task ends as failed with retries 0; a
\* failed task is never published or started again; and no step of a stitch
\* job writes a credit transaction.
C18_StitchFailureIsFatal ==
    /\ [][C18_RaiseEndsTask /\ txs' = txs]_vars
    /\ []C18_FailedWithoutRetryOrTx

\* the assembler has raised and the task has ended
C18_Witness ==
    /\ job[1].type = "video_stitch"
    /\ media.pc = "raised"
    /\ task[1] = [state |-> "failed", retries |-> 0]
    /\ job[1].status = "failed"
    /\ node[1] = "failed"
    /\ txs = TrialTxs

\* the max duration of the platform's preset applies to the source
OverCap ==
    /\ media.max_dur # <<>>
    /\ media.source > media.max_dur[1]

\* C17: an export that returns has trimmed the output if and only if the
\* preset has a max duration and the source is longer than it, so the
\* output is as long as the shorter of the two; a preset without a max
\* duration never trims; and an unknown platform is rejected before the
\* download.
C17_TrimIffOverCap ==
    /\ media.pc = "export_returned"
         => /\ media.trimmed <=> OverCap
            /\ media.out = IF OverCap THEN media.max_dur[1] ELSE media.source
    /\ (media.pc # "none" /\ media.platform = "youtube") => ~media.trimmed
    /\ (media.pc # "none" /\ media.platform \notin DOMAIN PLATFORM_PRESETS)
         => /\ ~media.downloaded
            /\ media.pc \in {"export_args", "export_raised"}

\* ---------------------------------------------------------------- C21
\* C21: once the provider start call of a video job has been refused with a
\* safety / blocked error, the job is FAILED, its task is not queued for a
\* retry, the start call is never invoked again, and when the attempt is
\* over a paid job has its refund.
C21_StartBlockedNoRetry ==
    \A j \in watch :
       hist[j].blocked > 0
       => /\ job[j].status = "failed"
          /\ task[j].state # "queued"
          /\ startCalls[j] = hist[j].blocked
          /\ (task[j].state # "running" /\ credit_cost(j) > 0)
               => Refunds(j) # {}

\* ---------------------------------------------------------------- C22
\* the task of the job has returned or has failed for good: no attempt is
\* running and no retry is queued
Ended(j) == task[j].state \in {"succeeded", "failed"}

C23_ClassifiedByErrorText ==
    media.pc \in {"retry_loop", "retry_returned", "retry_raised"}
    => /\ media.calls <= media.max_retries
       /\ \A i \in 1..Len(media.log) :
            LET e == media.log[i]
                unsafe == Mentions(e.error, "safety") \/ Mentions(e.error, "blocked")
                limited == Mentions(e.error, "quota") \/ Mentions(e.error, "rate")
            IN /\ unsafe => (e.did = "raise" /\ i = Len(media.log) /\ media.calls = i)
               /\ (~unsafe /\ limited)
                    => (e.did = "sleep" /\ e.wait > TransientWait(i - 1))
               /\ (~unsafe /\ ~limited)
                    => (e.did = "sleep" /\ e.wait = TransientWait(i - 1))

\* ---------------------------------------------------------------- C24
\* C24: a dispatched generate_video, extend_video or analyze_face job is
\* executed at most 1 + max_retries times, its executions make no more
\* provider start calls than there are executions, an attempt polls at most
\* max_polls times, and when its task has ended the job is COMPLETED or
\* FAILED.
C24_BoundedAndTerminal ==
    \A j \in watch :
       /\ hist[j].execs <= 1 + max_retries
       /\ startCalls[j] <= hist[j].execs
       /\ polls[j] <= max_polls
       /\ Ended(j) => job[j].status \in {"completed", "failed"}

\* ---------------------------------------------------------------- C25
\* the service has decided between its two paths
PathChosen == media.pc \in {"concat", "probe", "xfade", "encode", "resize", "read",
                            "upload", "returned"}

\* the resize step is behind the service
PastResize == media.pc \in {"read", "upload", "returned"}

\* the transition list is normalised to n - 1 entries, the given ones
\* first and "cut" after them; the stream-copy path is taken if and only if
\* every junction is cut, the re-encode path if and only if some junction is
\* fade or crossfade
C25_NormalisedAndRouted ==
    PathChosen
    => /\ Len(media.norm) = Len(media.video_urls) - 1
       /\ \A i \in 1..Len(media.norm) :
            media.norm[i] = IF i <= Len(media.transitions)
                              THEN media.transitions[i] ELSE "cut"
       /\ media.path = "copy" <=> \A i \in 1..Len(media.norm) : media.norm[i] = "cut"
       /\ media.path = "reencode"
            <=> \E i \in 1..Len(media.norm) : media.norm[i] \in {"fade", "crossfade"}

C26_NonZeroExitAborts ==
    ("nonzero" \in DOMAIN media /\ media.nonzero # "none")
    => /\ media.pc \in {"raised", "export_raised"}
       /\ ~media.uploaded

\* ---------------------------------------------------------------- C27
\* the operation of stitch_service has ended, with a URL or an exception
MediaEnded == media.pc \in {"returned", "raised", "export_returned", "export_raised"}

\* C27: when a stitch or an export has ended, by returning a URL or by
\* failing at the download, at an ffmpeg step or at the file read, its
\* temporary directory does not exist; and the upload is reached, and made,
\* only after the directory has been removed.
C27_TmpdirRemoved ==
    /\ MediaEnded => media.tmpdir # "exists"
    /\ media.pc \in {"upload", "export_upload"} => media.tmpdir = "removed"
    /\ ("uploaded" \in DOMAIN media /\ media.uploaded) => media.tmpdir = "removed"

\* an export whose trim failed has ended without its directory
C27_Witness ==
    /\ media.pc = "export_raised"
    /\ media.nonzero = "trim"
    /\ media.tmpdir = "removed"

RECURSIVE RowsOf(_, _)
RowsOf(indexes, rows) ==
    IF indexes = {} THEN rows
    ELSE LET i == CHOOSE k \in indexes : TRUE
         IN RowsOf(indexes \ {i}, Append(rows, txs[i]))

\* C29: a job whose status was set to COMPLETED has no refund row, and the
\* refunds of a job never add up to more than was deducted for it.
C29_NoRefundAfterCompleted ==
    \A j \in watch :
       /\ hist[j].completed => Refunds(j) = {}
       /\ SumAmounts(RowsOf(Refunds(j), <<>>))
            <= -SumAmounts(RowsOf(Deductions(j), <<>>))

\* ---------------------------------------------------------------- C30
\* the request is over and no execution of its task is running or queued
Quiescent(r) ==
    /\ rpc[r] \in {"done", "error"}
    /\ task[r].state \in {"none", "succeeded", "failed"}

\* C30: when a request with a committed deduction is over and nothing more
\* will run for its job, the job is COMPLETED or a refund of the deducted
\* amount is recorded: no deduction is left with a job that stays PENDING or
\* PROCESSING and no refund.
C30_ChargedWorkOrRefund ==
    \A r \in watch :
       (Deductions(r) # {} /\ Quiescent(r))
       => \/ job[r].status = "completed"
          \/ \E i \in Refunds(r) : txs[i].amount = CREDIT_COSTS(rop[r])

====
